---------------------------- MODULE Spec2Model ----------------------------
(***************************************************************************)
(* Model of the EnfaceAuth broker (src/src/index.js) with the challenge    *)
(* check of src/src/blockchain.js and the helpers of src/unnamed/part_000. *)
(*                                                                         *)
(* A connection is a socket accepted by the WebSocket server.  newClient   *)
(* gives it a clientId and one session object; connections are numbered   *)
(* 1, 2, ... in the order they are accepted, and that number stands for    *)
(* the socket, its clientId (uuid) and its session's sessionId (uuid).     *)
(* A session object outlives its entry in this.sessions: a socket's        *)
(* browserSession keeps referring to it after the entry was deleted.       *)
(*                                                                         *)
(* Handlers run to their first real suspension point in one step: the RPC  *)
(* inside createChallenge (HELLO) and the application callback onSuccess   *)
(* (AUTH).  The rest of such a handler is a second step.                   *)
(*                                                                         *)
(* The clients are of three kinds, told apart by the commands they use:    *)
(* the browser widget (AUTH_INIT), the relying party's backend (CHECK)     *)
(* and the authenticator (HELLO, AUTH, AUTH_DECLINED, and AUTH_INIT out of *)
(* turn); each of them may also send what the dispatcher cannot read.      *)
(* The broker does not know the kind of a client.                          *)
(*                                                                         *)
(* out holds the envelopes the step just taken put on the wire, in the     *)
(* order of the send calls, each with the connection it was delivered to;  *)
(* dropped holds the sockets that step called send on when they were no    *)
(* longer open.                                                            *)
(* activator and completed are history variables: they record which        *)
(* connection's CHECK activated a session and which sessions 'welcome' was *)
(* emitted for; no handler reads them.                                     *)
(***************************************************************************)
EXTENDS Integers, Sequences, FiniteSets, TLC

\* ------------------------------------------------------------------ bounds
\* connections accepted, handlers suspended at one time, challenges drawn for
\* one socket
MaxConn == 3
MaxPending == 1
MaxChallenge == 1

\* ----------------------------------------------------------- value domains
Conn == 1..MaxConn

\* JavaScript null / undefined for string-valued fields (alias, key)
Null == "null"
Undefined == "undefined"
\* null / a missing field for id-valued fields, and "no session object"
NullId == 0
MissingId == -1
NoSession == 0

Kinds == {"widget", "backend", "authenticator"}

\* aliases that have a record in the blockchain registry
KnownAliases == {"alice", "bob"}
\* alias values the three commands are tried with
CheckAliases == {"alice", ""}
HelloAliases == {"alice", "bob", "ghost"}
AuthAliases == {"alice", "bob", Null}

\* wire values of the command constants (./constants is not part of src/)
COMMAND_CHECK == "CHECK"
COMMAND_READY == "READY"
COMMAND_ERROR == "ERROR"
COMMAND_ACTIVATED == "ACTIVATED"
COMMAND_HELLO == "HELLO"
COMMAND_CHALLENGE == "CHALLENGE"
COMMAND_AUTH_INIT == "AUTH_INIT"
COMMAND_AUTH_RESULT == "AUTH_RESULT"
COMMAND_AUTH == "AUTH"
COMMAND_AUTH_DECLINED == "AUTH_DECLINED"
COMMAND_CONNECTION_FAILED == "CONNECTION_FAILED"

VARIABLES
    created,          \* number of connections accepted so far
    fired,            \* number of authorization-window timers that have run
    kind,             \* the kind of client behind each connection
    sock,             \* socket state: "none", "open", "closed"
    sessions,         \* keys of this.sessions (clientIds still registered)
    alias,            \* session.alias of each session object
    clientSessionId,  \* session.clientSessionId of each session object
    browserSession,   \* client.browserSession: the session adopted by HELLO
    secret,           \* client.secret (0: undefined)
    publicKeySign,    \* client.publicKeySign (the alias whose key it is)
    pending,          \* handlers suspended at an await
    out,              \* envelopes delivered by the last step, in order
    dropped,          \* sockets the last step sent to that were not open
    activator,        \* history: the connection whose CHECK activated a session
    completed         \* history: sessions a 'welcome' was emitted for

vars == <<created, fired, kind, sock, sessions, alias, clientSessionId,
          browserSession, secret, publicKeySign, pending, out, dropped,
          activator, completed>>

\* ---------------------------------------------------------------- helpers
\* JavaScript truthiness of an alias value
Truthy(a) == a \notin {Null, Undefined, ""}

\* uuid() and crypto.randomBytes(128) return a value never seen before.  The
\* values drawn for one session, or one socket, are k + MaxConn, k + 2 *
\* MaxConn, ..., so the one drawn last tells the next; no two draws agree,
\* and a clientSessionId is never equal to a sessionId (1..MaxConn).
Fresh(k, last) == IF last = 0 THEN k + MaxConn ELSE last + MaxConn

NoPayload == [kind |-> "none", key |-> "", val |-> 0]
Env(cmd, message, payload) ==
    [to |-> 0, cmd |-> cmd, message |-> message, payload |-> payload]

\* encrypt(text, key): AES under secretCode
encrypt(text) == [kind |-> "aes", key |-> "secretCode", val |-> text]
\* publicKeyEnc.encrypt(randomBytes): RSA under the alias's encryption key
rsaEncrypt(a, bytes) == [kind |-> "rsa", key |-> a, val |-> bytes]

\* The broker's state as one value w, which the functions of the source take
\* and give back; w.out collects what the running step sends.
World ==
    [kind |-> kind, sock |-> sock, sessions |-> sessions, alias |-> alias,
     clientSessionId |-> clientSessionId, browserSession |-> browserSession,
     secret |-> secret, publicKeySign |-> publicKeySign, pending |-> pending,
     out |-> <<>>, dropped |-> {}, activator |-> activator,
     completed |-> completed]

\* send: client.send(encode(data)); a socket that is not open delivers
\* nothing, and the call is noted in w.dropped
send(w, c, data) ==
    IF w.sock[c] = "open"
    THEN [w EXCEPT !.out = Append(@, [data EXCEPT !.to = c])]
    ELSE [w EXCEPT !.dropped = @ \cup {c}]

\* closeClient: delete this.sessions[clientId]; client.terminate().  The
\* 'close' event that follows finds no session and does nothing more, so
\* the socket counts as closed from here on.
closeClient(w, c) ==
    [w EXCEPT !.sessions = @ \ {c}, !.sock[c] = "closed"]

\* resolve: nothing is sent when the client's session is not registered
resolve(w, c, data, closeConnection) ==
    IF c \notin w.sessions THEN w
    ELSE LET w1 == send(w, c, data)
         IN IF closeConnection THEN closeClient(w1, c) ELSE w1

finalResponse(w, c, data) == resolve(w, c, data, TRUE)

errorResponse(w, c, error) ==
    finalResponse(w, c, Env(COMMAND_ERROR, error, NoPayload))

\* a variant of finalizeSession that leaves the session alone, which C4 must
\* tell from finalizeSession
finalizeSession_keep(w, c) == w

\* finalizeSession: close the client if its session is registered
finalizeSession(w, c) == IF c \in w.sessions THEN closeClient(w, c) ELSE w

\* the catch block of request: an exception or rejection of a handler
requestCatch(w, c, error) == finalizeSession(errorResponse(w, c, error), c)

\* findSession: the first registered session, in insertion order, whose
\* field equals the value with ===; NoSession when there is none
findSession(w, paramName, searchValue) ==
    LET hits == {k \in w.sessions :
                    IF paramName = "sessionId" THEN k = searchValue
                    ELSE w.clientSessionId[k] = searchValue}
    IN IF hits = {} THEN NoSession
       ELSE CHOOSE k \in hits : \A j \in hits : k <= j

\* a variant of responseFailed that answers the sender only, which C13 must
\* tell from responseFailed
responseFailed_senderOnly(w, c, cmd) ==
    IF w.browserSession[c] = NoSession
    THEN errorResponse(w, c, "client not found")
    ELSE finalResponse(w, c, Env(cmd, "", NoPayload))

\* responseFailed: fan a command out to the adopted session and the sender
responseFailed(w, c, cmd) ==
    IF w.browserSession[c] = NoSession
    THEN errorResponse(w, c, "client not found")
    ELSE finalResponse(
             finalResponse(w, w.browserSession[c], Env(cmd, "", NoPayload)),
             c, Env(cmd, "", NoPayload))

\* An object nothing refers to any more is no part of the state: the fields
\* of a socket that is closed and has no handler suspended on it, and the
\* fields of a session that is out of this.sessions and is no open socket's
\* browserSession.  The history of a session lasts as long as the session
\* and through the step that answers it.
Collect(w) ==
    LET live(c) == w.sock[c] = "open" \/ \E p \in w.pending : p.conn = c
        held(k) == k \in w.sessions
                   \/ \E c \in Conn : w.sock[c] = "open" /\ w.browserSession[c] = k
        answered(k) == \E i \in DOMAIN w.out : w.out[i].to = k
    IN [w EXCEPT
          !.kind = [c \in Conn |-> IF w.sock[c] = "open" THEN @[c] ELSE "none"],
          !.browserSession = [c \in Conn |-> IF live(c) THEN @[c] ELSE NoSession],
          !.secret = [c \in Conn |-> IF live(c) THEN @[c] ELSE 0],
          !.publicKeySign = [c \in Conn |-> IF live(c) THEN @[c] ELSE Undefined],
          !.alias = [k \in Conn |-> IF held(k) THEN @[k] ELSE Null],
          !.clientSessionId = [k \in Conn |-> IF held(k) THEN @[k] ELSE NullId],
          !.activator = [k \in Conn |->
                            IF held(k) \/ answered(k) THEN @[k] ELSE 0],
          !.completed = {k \in @ : held(k)}]

\* the step's result becomes the next state
Commit(w) ==
    \E g \in {Collect(w)} :
       /\ kind' = g.kind
       /\ sock' = g.sock
       /\ sessions' = g.sessions
       /\ alias' = g.alias
       /\ clientSessionId' = g.clientSessionId
       /\ browserSession' = g.browserSession
       /\ secret' = g.secret
       /\ publicKeySign' = g.publicKeySign
       /\ pending' = g.pending
       /\ out' = g.out
       /\ dropped' = g.dropped
       /\ activator' = g.activator
       /\ completed' = g.completed

\* ------------------------------------------------------------------- Init
Init ==
    /\ created = 0
    /\ fired = 0
    /\ kind = [c \in Conn |-> "none"]
    /\ sock = [c \in Conn |-> "none"]
    /\ sessions = {}
    /\ alias = [c \in Conn |-> Null]
    /\ clientSessionId = [c \in Conn |-> NullId]
    /\ browserSession = [c \in Conn |-> NoSession]
    /\ secret = [c \in Conn |-> 0]
    /\ publicKeySign = [c \in Conn |-> Undefined]
    /\ pending = {}
    /\ out = <<>>
    /\ dropped = {}
    /\ activator = [c \in Conn |-> 0]
    /\ completed = {}

\* ------------------------------------------------- connection management
\* newClient: a session under a new clientId, with null alias and
\* clientSessionId (the timer it sets is TimerFire)
newClient(w, c) ==
    [w EXCEPT !.sessions = @ \cup {c},
              !.alias[c] = Null,
              !.clientSessionId[c] = NullId,
              !.sock[c] = "open"]

\* wsServer.on('connection'), for a client of kind k
Connect(k) ==
    /\ created < MaxConn
    /\ created' = created + 1
    /\ Commit([newClient(World, created + 1) EXCEPT !.kind[created + 1] = k])
    /\ UNCHANGED fired

\* the setTimeout callback of newClient; equal delays run in creation order
TimerFire ==
    /\ fired < created
    /\ fired' = fired + 1
    /\ Commit(finalizeSession(World, fired + 1))
    /\ UNCHANGED created

\* socket.on('close'): the socket is closed when the handler runs
onClose(w, c) ==
    LET w0 == [w EXCEPT !.sock[c] = "closed"]
        w1 == IF c \in w0.sessions
              THEN responseFailed(w0, c, COMMAND_CONNECTION_FAILED)
              ELSE w0
    IN [w1 EXCEPT !.sessions = @ \ {c}]

\* the peer goes away: the 'close' event of a socket that was open
ClientDisconnect(c) ==
    /\ sock[c] = "open"
    /\ Commit(onClose(World, c))
    /\ UNCHANGED <<created, fired>>

\* the setInterval callback finds socket.isAlive false, no pong having come
\* since the tick before, and terminates the socket, whose 'close' event
\* follows at once
MissedPong(c) ==
    /\ sock[c] = "open"
    /\ Commit(onClose(World, c))
    /\ UNCHANGED <<created, fired>>

\* ------------------------------------------------------ challenge service
\* challenge_signed values an AUTH may carry: the field missing, a string
\* without '|', or decryptedHex|signatureHex.  A signature is the key that
\* made it and the bytes it signs.
\* An AUTH on socket c is tried with the bytes of c's secret and with other
\* bytes (0), as the decrypted part and as what the signature signs.
SecretGuess(c) == {secret[c], 0}
ChallengeSigned(c) ==
    {[form |-> f, dec |-> 0, key |-> "", msg |-> 0] : f \in {"missing", "nosep"}}
    \cup [form : {"pair"}, dec : SecretGuess(c), key : KnownAliases,
          msg : SecretGuess(c)]

\* publicKeySign.verify(secret, sign)
rsaVerify(pks, bytes, sign) == sign.key = pks /\ sign.msg = bytes

\* a variant of checkChallenge without the signature check, which C2 must
\* tell from checkChallenge
checkChallenge_decryptedOnly(pks, sec, challengeSigned) ==
    IF challengeSigned.form # "pair" \/ sec = 0 \/ pks = Undefined THEN "throw"
    ELSE IF sec = challengeSigned.dec THEN "true" ELSE "false"

\* checkChallenge: "true", "false", or "throw" where the code raises a
\* TypeError (split of undefined, Buffer.from(undefined, ...))
checkChallenge(pks, sec, challengeSigned) ==
    IF challengeSigned.form = "missing" THEN "throw"
    ELSE IF sec = 0 THEN "throw"
    ELSE IF pks = Undefined THEN "throw"
    ELSE IF challengeSigned.form = "nosep" THEN "throw"
    ELSE IF sec = challengeSigned.dec /\ rsaVerify(pks, sec, challengeSigned)
         THEN "true" ELSE "false"

\* ------------------------------------------------------------- dispatcher
\* names the handlers suspended on one socket apart
HandlerId(w, c) ==
    CHOOSE n \in 1..(MaxPending + 1) :
        /\ \A p \in w.pending : p.conn = c => p.id # n
        /\ \A m \in 1..(n - 1) : \E p \in w.pending : p.conn = c /\ p.id = m

suspend(w, c, k, a) ==
    [w EXCEPT !.pending = @ \cup
        {[id |-> HandlerId(w, c), kind |-> k, conn |-> c, alias |-> a]}]

\* a variant of responseInit that closes the sender after the reply, which
\* C11 must tell from responseInit
responseInit_close(w, c) ==
    finalResponse(w, c, Env(COMMAND_AUTH_INIT, "", encrypt(c)))

\* responseInit
responseInit(w, c) ==
    resolve(w, c, Env(COMMAND_AUTH_INIT, "", encrypt(c)), FALSE)

\* responseActivate
responseActivate(w, c, sessionId, a) ==
    LET session == findSession(w, "sessionId", sessionId)
    IN IF session = NoSession THEN errorResponse(w, c, "client not found")
       ELSE IF Truthy(w.alias[session])
       THEN errorResponse(w, c, "session is already activated")
       ELSE LET csid == Fresh(session, w.clientSessionId[session])
                w1 == [w EXCEPT !.alias[session] = a,
                                !.clientSessionId[session] = csid,
                                !.activator[session] = c]
                w2 == finalResponse(w1, c,
                          Env(COMMAND_READY, "",
                              [kind |-> "csid", key |-> "", val |-> csid]))
            IN send(w2, session, Env(COMMAND_ACTIVATED, "", NoPayload))

\* responseHello, up to the await of createChallenge
responseHello(w, c, session_id, a) ==
    LET session == findSession(w, "clientSessionId", session_id)
    IN IF session = NoSession THEN errorResponse(w, c, "client not found")
       ELSE suspend([w EXCEPT !.browserSession[c] = session], c, "hello", a)

\* responseHello, after createChallenge settled: it rejects for an alias
\* without a record
responseHelloResume(w, p) ==
    LET w0 == [w EXCEPT !.pending = @ \ {p}]
        c == p.conn
    IN IF p.alias \in KnownAliases
       THEN LET bytes == Fresh(c, w.secret[c])
                w1 == [w0 EXCEPT !.secret[c] = bytes,
                                 !.publicKeySign[c] = p.alias]
            IN resolve(w1, c,
                   Env(COMMAND_CHALLENGE, "continue", rsaEncrypt(p.alias, bytes)),
                   FALSE)
       ELSE requestCatch(w0, c, "Error: user not found")

\* a variant of responseAuth that reports an alias mismatch to the sender
\* only, which C8 must tell from responseAuth
responseAuth_senderOnly(w, c, a, challenge_signed) ==
    IF w.browserSession[c] = NoSession
    THEN errorResponse(w, c, "client not found")
    ELSE IF w.alias[w.browserSession[c]] # a
    THEN errorResponse(w, c, "user alias do not match")
    ELSE LET challengeResult ==
                 checkChallenge(w.publicKeySign[c], w.secret[c], challenge_signed)
         IN IF challengeResult = "throw" THEN requestCatch(w, c, "TypeError")
            ELSE IF challengeResult # "true"
            THEN requestCatch(w, c, "Error: access denied")
            ELSE suspend(w, c, "auth", "")

\* responseAuth, up to the await of onSuccess
responseAuth(w, c, a, challenge_signed) ==
    IF w.browserSession[c] = NoSession
    THEN errorResponse(w, c, "client not found")
    ELSE IF w.alias[w.browserSession[c]] # a
    THEN errorResponse(
             errorResponse(w, w.browserSession[c], "user alias do not match"),
             c, "user alias do not match")
    ELSE LET challengeResult ==
                 checkChallenge(w.publicKeySign[c], w.secret[c], challenge_signed)
         IN IF challengeResult = "throw" THEN requestCatch(w, c, "TypeError")
            ELSE IF challengeResult # "true"
            THEN requestCatch(w, c, "Error: access denied")
            ELSE suspend(w, c, "auth", "")

\* a variant of the end of responseAuth that answers the adopted session
\* only, which C1 must tell from responseAuthResume
responseAuthResume_peerOnly(w, p, result) ==
    finalResponse([w EXCEPT !.pending = @ \ {p}], w.browserSession[p.conn],
        Env(IF result = "error" THEN "error" ELSE COMMAND_AUTH_RESULT,
            IF result = "error" THEN "denied" ELSE "welcome",
            [kind |-> "token", key |-> "", val |-> 0]))

\* responseAuth, after onSuccess settled: with a result that has no error
\* ("ok"), with one that has ("error"), or by throwing
OnSuccessResults == {"ok", "error", "throw"}
responseAuthResume(w, p, result) ==
    LET c == p.conn
        err == result = "error"
        message == IF err THEN "denied" ELSE "welcome"
        sent == c \in w.sessions \/ w.browserSession[c] \in w.sessions
        w0 == [w EXCEPT !.pending = @ \ {p},
                        !.completed = IF result = "ok" /\ sent
                                      THEN @ \cup {w.browserSession[c]} ELSE @]
    IN IF result = "throw" THEN requestCatch(w0, c, "Error: onSuccess")
       ELSE finalResponse(
                finalResponse(w0, c,
                    Env(IF err THEN "error" ELSE COMMAND_AUTH, message, NoPayload)),
                w0.browserSession[c],
                Env(IF err THEN "error" ELSE COMMAND_AUTH_RESULT, message,
                    [kind |-> "token", key |-> "", val |-> 0]))

\* a message event on an open socket starts one handler
CanReceive(c) == sock[c] = "open"

\* a handler that would suspend is started only while fewer than MaxPending
\* are suspended
CanSuspend(w) == Cardinality(w.pending) <= MaxPending

\* the number of challenges drawn for socket c so far
Challenges(c) == IF secret[c] = 0 THEN 0 ELSE (secret[c] - c) \div MaxConn

\* AUTH_INIT
RecvAuthInit(c) ==
    /\ CanReceive(c)
    /\ kind[c] \in {"widget", "authenticator"}
    /\ Commit(responseInit(World, c))
    /\ UNCHANGED <<created, fired>>

\* CHECK
RecvCheck(c, sessionId, a) ==
    /\ CanReceive(c)
    /\ kind[c] = "backend"
    /\ Commit(responseActivate(World, c, sessionId, a))
    /\ UNCHANGED <<created, fired>>

\* HELLO
RecvHello(c, session_id, a) ==
    /\ CanReceive(c)
    /\ kind[c] = "authenticator"
    /\ Challenges(c) < MaxChallenge
    /\ \E r \in {responseHello(World, c, session_id, a)} :
           CanSuspend(r) /\ Commit(r)
    /\ UNCHANGED <<created, fired>>

HelloResume(p) ==
    /\ p \in pending
    /\ p.kind = "hello"
    /\ Commit(responseHelloResume(World, p))
    /\ UNCHANGED <<created, fired>>

\* AUTH
RecvAuth(c, a, challenge_signed) ==
    /\ CanReceive(c)
    /\ kind[c] = "authenticator"
    /\ \E r \in {responseAuth(World, c, a, challenge_signed)} :
           CanSuspend(r) /\ Commit(r)
    /\ UNCHANGED <<created, fired>>

AuthResume(p, result) ==
    /\ p \in pending
    /\ p.kind = "auth"
    /\ Commit(responseAuthResume(World, p, result))
    /\ UNCHANGED <<created, fired>>

\* AUTH_DECLINED
RecvAuthDeclined(c) ==
    /\ CanReceive(c)
    /\ kind[c] = "authenticator"
    /\ Commit(responseFailed(World, c, COMMAND_AUTH_DECLINED))
    /\ UNCHANGED <<created, fired>>

\* a payload JSON.parse rejects, or a command the switch does not know
RecvBad(c, error) ==
    /\ CanReceive(c)
    /\ Commit(errorResponse(World, c, error))
    /\ UNCHANGED <<created, fired>>

\* CURRENT_USER_TOKEN: the payload is kept in this.currentUserToken, which
\* only onSuccess is given; nothing is answered
RecvCurrentUserToken(c) ==
    /\ CanReceive(c)
    /\ Commit(World)
    /\ UNCHANGED <<created, fired>>

\* ids a CHECK / a HELLO is tried with: for CHECK every sessionId in use and
\* one that is not (0); for HELLO a missing field, null, every
\* clientSessionId in use and a value that is none (1)
CheckIds == 0..created
HelloIds == {MissingId, NullId, 1} \cup {clientSessionId[k] : k \in Conn}

Next ==
    \/ \E k \in Kinds : Connect(k)
    \/ TimerFire
    \/ \E c \in Conn : ClientDisconnect(c)
    \/ \E c \in Conn : MissedPong(c)
    \/ \E c \in Conn : RecvAuthInit(c)
    \/ \E c \in Conn : \E sid \in CheckIds : \E a \in CheckAliases : RecvCheck(c, sid, a)
    \/ \E c \in Conn : \E id \in HelloIds : \E a \in HelloAliases : RecvHello(c, id, a)
    \/ \E p \in pending : HelloResume(p)
    \/ \E c \in Conn : \E a \in AuthAliases : \E cs \in ChallengeSigned(c) : RecvAuth(c, a, cs)
    \/ \E p \in pending : \E r \in OnSuccessResults : AuthResume(p, r)
    \/ \E c \in Conn : RecvAuthDeclined(c)
    \/ \E c \in Conn : \E e \in {"wrong data received", "unknown command"} : RecvBad(c, e)
    \/ \E c \in Conn : RecvCurrentUserToken(c)

Spec == Init /\ [][Next]_vars

\* setTimeout runs its callback once the delay has passed
LiveSpec == Init /\ [][Next]_vars /\ WF_vars(TimerFire)

TypeOK ==
    /\ created \in 0..MaxConn
    /\ fired \in 0..created
    /\ sessions \subseteq 1..created
    /\ \A c \in Conn : sock[c] = "open" <=> c \in sessions

\* ------------------------------------------------------------ properties
\* among the envelopes o of a step, one with this command and message was
\* delivered to connection c
Delivered(o, c, cmd, message) ==
    \E i \in DOMAIN o : o[i].to = c /\ o[i].cmd = cmd /\ o[i].message = message

Token == [kind |-> "token", key |-> "", val |-> 0]

\* onSuccess returns without error for an AUTH whose sender and adopted
\* session, one that a CHECK of a third connection activated, are both still
\* registered
HappyPath(p) ==
    /\ p.kind = "auth"
    /\ p.conn \in sessions
    /\ browserSession[p.conn] \in sessions
    /\ browserSession[p.conn] # p.conn
    /\ activator[browserSession[p.conn]] # 0
    /\ AuthResume(p, "ok")

\* C1, as amended: on the happy path the connection that sent AUTH receives
\* one envelope with the command it sent, AUTH, and message 'welcome', the
\* connection whose session the CHECK named (not the one that sent CHECK)
\* receives AUTH_RESULT 'welcome' with the token, and both are closed; the
\* connection that sent CHECK was closed with its READY and receives nothing.
C1_HappyPath ==
    [][\A p \in pending :
          HappyPath(p) =>
             LET c == p.conn
                 k == browserSession[p.conn]
             IN /\ out' = << [Env(COMMAND_AUTH, "welcome", NoPayload) EXCEPT !.to = c],
                             [Env(COMMAND_AUTH_RESULT, "welcome", Token) EXCEPT !.to = k] >>
                /\ sock'[c] = "closed" /\ sock'[k] = "closed"
                /\ c \notin sessions' /\ k \notin sessions'
                /\ sock[activator[k]] = "closed"
                /\ activator[k] \notin {c, k}]_vars

\* C1 as stated: on the happy path the connection that sent CHECK and the
\* connection that sent AUTH both receive AUTH_RESULT 'welcome' and both are
\* closed.
C1_AsStated ==
    [][\A p \in pending :
          HappyPath(p) =>
             /\ Delivered(out', activator[browserSession[p.conn]],
                          COMMAND_AUTH_RESULT, "welcome")
             /\ Delivered(out', p.conn, COMMAND_AUTH_RESULT, "welcome")
             /\ sock'[activator[browserSession[p.conn]]] = "closed"
             /\ sock'[p.conn] = "closed"]_vars

\* the happy path has just completed: 'welcome' went to the AUTH sender and
\* to the connection of the session it had adopted
C1_Witness ==
    \E c, k \in Conn :
        /\ c # k
        /\ Len(out) = 2
        /\ out[1] = [Env(COMMAND_AUTH, "welcome", NoPayload) EXCEPT !.to = c]
        /\ out[2] = [Env(COMMAND_AUTH_RESULT, "welcome", Token) EXCEPT !.to = k]
        /\ sock[c] = "closed" /\ sock[k] = "closed"
        /\ activator[k] \notin {0, c, k}

\* C2: a handler reaches onSuccess only from an AUTH on a connection where a
\* HELLO adopted a session, with the alias of that session, a stored secret,
\* a decrypted part equal to the secret and a signature of the secret under
\* the stored signing key; 'welcome' is emitted only when such a handler's
\* onSuccess returns; a session is adopted only by HELLO.
C2_OnSuccessGuard ==
    [][/\ \A c \in Conn :
             (\E p \in pending' \ pending : p.conn = c /\ p.kind = "auth") =>
                /\ \E a \in AuthAliases : \E cs \in ChallengeSigned(c) : RecvAuth(c, a, cs)
                /\ \A a \in AuthAliases : \A cs \in ChallengeSigned(c) :
                      RecvAuth(c, a, cs) =>
                         /\ browserSession[c] # NoSession
                         /\ a = alias[browserSession[c]]
                         /\ secret[c] # 0
                         /\ cs.form = "pair"
                         /\ cs.dec = secret[c]
                         /\ cs.key = publicKeySign[c] /\ cs.msg = secret[c]
       /\ (\E i \in DOMAIN out' : out'[i].message = "welcome") =>
             \E p \in pending : p.kind = "auth" /\ AuthResume(p, "ok")
       /\ \A c \in Conn :
             browserSession'[c] \notin {NoSession, browserSession[c]} =>
                \E id \in HelloIds : \E a \in HelloAliases : RecvHello(c, id, a)]_vars

\* an AUTH that passed both checks waits for onSuccess
C2_Witness ==
    \E p \in pending :
        /\ p.kind = "auth"
        /\ browserSession[p.conn] # NoSession
        /\ alias[browserSession[p.conn]] = "alice"
        /\ secret[p.conn] # 0

\* C3 as stated: a session that a CHECK activated and 'welcome' was emitted
\* for yields no second 'welcome', whatever connection asks.
C3_AtMostOnce ==
    [][\A p \in pending :
          (/\ p.kind = "auth"
           /\ browserSession[p.conn] \in completed
           /\ activator[browserSession[p.conn]] # 0
           /\ AuthResume(p, "ok"))
          => ~ \E i \in DOMAIN out' : out'[i].message = "welcome"]_vars

\* C4: the registry is empty again and again, so that every registered
\* session is eventually out of it (a session never comes back), and no
\* session whose timer has fired is registered.
C4_TimeoutLiveness ==
    /\ []<>(sessions = {})
    /\ [](\A c \in 1..fired : c \notin sessions /\ sock[c] = "closed")

\* the timer of a connection has fired while a handler of that connection
\* was waiting, and the session is gone
C4_Witness ==
    /\ fired >= 1
    /\ \E p \in pending : p.conn = fired
    /\ fired \notin sessions
    /\ sock[fired] = "closed"

\* a HELLO on connection c adopted the session of another connection k,
\* which a CHECK had activated
Adopted(c, k) == c # k /\ browserSession[c] = k /\ clientSessionId[k] # NullId

\* sessions c and k are paired, c being either side
Paired(c, k) == Adopted(c, k) \/ Adopted(k, c)

\* C5 as stated: when the timer of a registered session fires, every
\* registered session paired with it receives CONNECTION_FAILED, and the
\* session is reaped.
C5_TimeoutFanout ==
    [][\A k \in Conn :
          (/\ fired < created
           /\ fired + 1 \in sessions
           /\ k \in sessions
           /\ Paired(fired + 1, k)
           /\ TimerFire)
          => /\ Delivered(out', k, COMMAND_CONNECTION_FAILED, "")
             /\ fired + 1 \notin sessions']_vars

\* C6 as stated: when a connection with a registered session closes, every
\* registered session paired with it, on whichever side, receives
\* CONNECTION_FAILED, and both sessions leave the registry.
C6_DisconnectFanout ==
    [][\A c, k \in Conn :
          (/\ c \in sessions
           /\ k \in sessions
           /\ Paired(c, k)
           /\ (ClientDisconnect(c) \/ MissedPong(c)))
          => /\ Delivered(out', k, COMMAND_CONNECTION_FAILED, "")
             /\ c \notin sessions'
             /\ k \notin sessions']_vars

\* C7 as stated: an AUTH with the adopted session's alias whose challenge
\* check returns false is answered with ERROR 'access denied' to the sender
\* and to the adopted session, both are closed, and onSuccess is not reached.
C7_BadSignature ==
    [][\A c \in Conn : \A a \in AuthAliases : \A cs \in ChallengeSigned(c) :
          (/\ browserSession[c] # NoSession
           /\ Adopted(c, browserSession[c])
           /\ browserSession[c] \in sessions
           /\ a = alias[browserSession[c]]
           /\ checkChallenge(publicKeySign[c], secret[c], cs) = "false"
           /\ RecvAuth(c, a, cs))
          => /\ Delivered(out', c, COMMAND_ERROR, "access denied")
             /\ Delivered(out', browserSession[c], COMMAND_ERROR, "access denied")
             /\ c \notin sessions'
             /\ browserSession[c] \notin sessions'
             /\ pending' = pending]_vars

\* C8: an AUTH whose alias differs from the alias of the adopted session,
\* that session being registered, is answered with ERROR 'user alias do not
\* match' to the adopted session and to the sender, both leave the registry
\* and are closed, whatever challenge_signed is (checkChallenge would throw
\* on some), and no handler reaches onSuccess.  RecvAuth(c, a, cs) takes a
\* state to Collect(responseAuth(World, c, a, cs)); the property is stated
\* of that value, in every reachable state where the message can arrive.
C8_AliasMismatch ==
    \A c \in Conn : \A a \in AuthAliases : \A cs \in ChallengeSigned(c) :
        (/\ CanReceive(c)
         /\ kind[c] = "authenticator"
         /\ browserSession[c] # NoSession
         /\ browserSession[c] \in sessions
         /\ a # alias[browserSession[c]])
        => LET k == browserSession[c]
               e == Env(COMMAND_ERROR, "user alias do not match", NoPayload)
               r == Collect(responseAuth(World, c, a, cs))
           IN /\ CanSuspend(r)
              /\ r.out = IF k = c THEN << [e EXCEPT !.to = c] >>
                         ELSE << [e EXCEPT !.to = k], [e EXCEPT !.to = c] >>
              /\ c \notin r.sessions /\ k \notin r.sessions
              /\ r.sock[c] = "closed" /\ r.sock[k] = "closed"
              /\ r.pending = pending

\* an alias mismatch has just been reported to an adopted session and to the
\* connection that had adopted it
C8_Witness ==
    \E c, k \in Conn :
        /\ c # k
        /\ Len(out) = 2
        /\ out[1] = [Env(COMMAND_ERROR, "user alias do not match", NoPayload)
                        EXCEPT !.to = k]
        /\ out[2] = [Env(COMMAND_ERROR, "user alias do not match", NoPayload)
                        EXCEPT !.to = c]
        /\ sock[c] = "closed" /\ sock[k] = "closed"
        /\ activator[k] \notin {0, c, k}

\* C9 as stated: a CHECK naming another connection's registered session
\* that an earlier CHECK activated is answered with ERROR 'session is already activated', its
\* sender is closed, and the session's alias and clientSessionId stay.
C9_DuplicateActivation ==
    [][\A c \in Conn : \A sid \in Conn : \A a \in CheckAliases :
          (/\ sid \in sessions
           /\ sid # c
           /\ clientSessionId[sid] # NullId
           /\ RecvCheck(c, sid, a))
          => /\ out' = << [Env(COMMAND_ERROR, "session is already activated",
                               NoPayload) EXCEPT !.to = c] >>
             /\ c \notin sessions'
             /\ sid \in sessions' =>
                   /\ alias'[sid] = alias[sid]
                   /\ clientSessionId'[sid] = clientSessionId[sid]]_vars

\* C10 as stated: a HELLO whose session_id is not a clientSessionId minted
\* on a registered session is answered with ERROR, its sender is closed, no
\* session is adopted and no challenge is built.
C10_HelloGuard ==
    [][\A c \in Conn : \A id \in HelloIds : \A a \in HelloAliases :
          (/\ ~ \E k \in sessions :
                   clientSessionId[k] # NullId /\ clientSessionId[k] = id
           /\ RecvHello(c, id, a))
          => /\ Len(out') = 1
             /\ out'[1].to = c /\ out'[1].cmd = COMMAND_ERROR
             /\ c \notin sessions'
             /\ browserSession'[c] \in {NoSession, browserSession[c]}
             /\ pending' = pending]_vars

\* C11, as amended: an AUTH_INIT is answered with one AUTH_INIT envelope to
\* the sender whose token is the encryption of the sender's own sessionId,
\* and the sender stays open and registered; no session or socket changes.
\* RecvAuthInit(c) takes a state to Collect(responseInit(World, c)); the
\* property is stated of that value, in every reachable state where the
\* message can arrive.
C11_AuthInit ==
    \A c \in Conn :
        CanReceive(c) =>
           LET r == Collect(responseInit(World, c))
           IN /\ r.out = << [Env(COMMAND_AUTH_INIT, "", encrypt(c)) EXCEPT !.to = c] >>
              /\ c \in r.sessions /\ r.sock[c] = "open"
              /\ r.sessions = sessions /\ r.sock = sock
              /\ r.pending = pending

\* C11 as stated: the sender of AUTH_INIT receives the AUTH_INIT envelope
\* with the token of its own sessionId and its connection is closed.
C11_AsStated ==
    \A c \in Conn :
        CanReceive(c) =>
           LET r == Collect(responseInit(World, c))
           IN /\ r.out = << [Env(COMMAND_AUTH_INIT, "", encrypt(c)) EXCEPT !.to = c] >>
              /\ c \notin r.sessions /\ r.sock[c] = "closed"

\* an AUTH_INIT has just been answered and its sender is still open
C11_Witness ==
    \E c \in Conn :
        /\ out = << [Env(COMMAND_AUTH_INIT, "", encrypt(c)) EXCEPT !.to = c] >>
        /\ c \in sessions /\ sock[c] = "open"

\* C12 as stated, for one command out of order: an AUTH_INIT on a connection
\* that has sent HELLO with the alias of an activated session, adopted that
\* session and been given its CHALLENGE is answered with ERROR and the
\* connection is closed.
C12_SequenceEnforced ==
    [][\A c \in Conn :
          (/\ browserSession[c] # NoSession
           /\ Adopted(c, browserSession[c])
           /\ browserSession[c] \in sessions
           /\ alias[browserSession[c]] = publicKeySign[c]
           /\ secret[c] # 0
           /\ RecvAuthInit(c))
          => /\ Len(out') = 1
             /\ out'[1].to = c /\ out'[1].cmd = COMMAND_ERROR
             /\ c \notin sessions'
             /\ sock'[c] = "closed"]_vars

\* C13: an AUTH_DECLINED from a connection that adopted a session, that
\* session being registered, is answered with AUTH_DECLINED to the adopted
\* session and to the sender, and both leave the registry and are closed,
\* whatever handlers are suspended; from a connection that adopted none it
\* is answered with ERROR 'client not found' and the sender is closed.
\* RecvAuthDeclined(c) takes a state to
\* Collect(responseFailed(World, c, COMMAND_AUTH_DECLINED)); the property is
\* stated of that value, in every reachable state where the message can
\* arrive.
C13_AuthDeclined ==
    \A c \in Conn :
        CanReceive(c) =>
           LET k == browserSession[c]
               d == Env(COMMAND_AUTH_DECLINED, "", NoPayload)
               e == Env(COMMAND_ERROR, "client not found", NoPayload)
               r == Collect(responseFailed(World, c, COMMAND_AUTH_DECLINED))
           IN /\ r.pending = pending
              /\ c \notin r.sessions /\ r.sock[c] = "closed"
              /\ k = NoSession =>
                    /\ r.out = << [e EXCEPT !.to = c] >>
                    /\ r.sessions = sessions \ {c}
              /\ (k # NoSession /\ k \in sessions) =>
                    /\ r.out = IF k = c THEN << [d EXCEPT !.to = c] >>
                               ELSE << [d EXCEPT !.to = k], [d EXCEPT !.to = c] >>
                    /\ r.sessions = sessions \ {c, k}
                    /\ r.sock[k] = "closed"

\* an AUTH_DECLINED has just been passed to an adopted session, one that a
\* CHECK of a third connection had activated, and to its sender
C13_Witness ==
    \E c, k \in Conn :
        /\ c # k
        /\ out = << [Env(COMMAND_AUTH_DECLINED, "", NoPayload) EXCEPT !.to = k],
                    [Env(COMMAND_AUTH_DECLINED, "", NoPayload) EXCEPT !.to = c] >>
        /\ sock[c] = "closed" /\ sock[k] = "closed"
        /\ activator[k] \notin {0, c, k}

\* C14 as stated: when a connection c has adopted the activated session of
\* a connection k, both registered, k has adopted c's session in turn, and
\* the alias c gave in the HELLO that was answered with a CHALLENGE is the
\* alias CHECK stored on k's session.
C14_PeerSymmetry ==
    \A c, k \in Conn :
        (Adopted(c, k) /\ c \in sessions /\ k \in sessions) =>
           /\ browserSession[k] = c
           /\ publicKeySign[c] # Undefined => publicKeySign[c] = alias[k]

\* a message of connection c is taken up by the dispatcher
Receives(c) ==
    \/ RecvAuthInit(c)
    \/ \E sid \in CheckIds : \E a \in CheckAliases : RecvCheck(c, sid, a)
    \/ \E id \in HelloIds : \E a \in HelloAliases : RecvHello(c, id, a)
    \/ \E a \in AuthAliases : \E cs \in ChallengeSigned(c) : RecvAuth(c, a, cs)
    \/ RecvAuthDeclined(c)
    \/ \E e \in {"wrong data received", "unknown command"} : RecvBad(c, e)
    \/ RecvCurrentUserToken(c)

\* C15 as stated: while a handler of a connection is suspended at an await
\* (here: of a HELLO that adopted an activated session), no other message
\* of that connection is taken up.
C15_Serialized ==
    [][\A c \in Conn :
          (/\ \E p \in pending : p.conn = c
           /\ browserSession[c] # NoSession
           /\ Adopted(c, browserSession[c])
           /\ browserSession[c] \in sessions)
          => ~ Receives(c)]_vars

\* C16 as stated: no step calls send on a socket that is not open.
C16_NoSendToClosed == dropped = {}

\* C17 as stated: on a connection that adopted an activated session, still
\* registered, and holds a challenge, checkChallenge yields true or false for every
\* challenge_signed an AUTH may carry, and an AUTH with the session's alias
\* whose check is not true is answered with ERROR 'access denied'.
C17_NeverThrows ==
    \A c \in Conn : \A cs \in ChallengeSigned(c) :
        (/\ CanReceive(c)
         /\ browserSession[c] # NoSession
         /\ Adopted(c, browserSession[c])
         /\ browserSession[c] \in sessions
         /\ secret[c] # 0)
        => LET res == checkChallenge(publicKeySign[c], secret[c], cs)
               r == Collect(responseAuth(World, c, alias[browserSession[c]], cs))
           IN /\ res \in {"true", "false"}
              /\ res # "true" =>
                    Delivered(r.out, c, COMMAND_ERROR, "access denied")

\* the step starts a handler of an AUTH on connection c that reaches
\* onSuccess
ReachesOnSuccess(c) ==
    /\ \E p \in pending' \ pending : p.conn = c /\ p.kind = "auth"
    /\ \E a \in AuthAliases : \E cs \in ChallengeSigned(c) : RecvAuth(c, a, cs)

\* C18 as stated: an AUTH on a connection whose adopted session, one that a
\* CHECK of another connection had activated, is no longer in the registry
\* does not reach onSuccess.
C18_NoRemovedPeer ==
    [][\A c \in Conn :
          (/\ browserSession[c] # NoSession
           /\ browserSession[c] \notin sessions
           /\ activator[browserSession[c]] \notin {0, c, browserSession[c]})
          => ~ ReachesOnSuccess(c)]_vars

\* C19 as stated: when an AUTH naming alias a on a connection paired with a
\* registered, activated session reaches onSuccess, the signing key held by
\* the connection is the one createChallenge fetched for that same alias a.
C19_KeyBinding ==
    [][\A c \in Conn : \A a \in AuthAliases : \A cs \in ChallengeSigned(c) :
          (/\ browserSession[c] \in sessions
           /\ Adopted(c, browserSession[c])
           /\ activator[browserSession[c]] \notin {0, c, browserSession[c]}
           /\ RecvAuth(c, a, cs)
           /\ \E p \in pending' \ pending : p.conn = c /\ p.kind = "auth")
          => publicKeySign[c] = a]_vars

\* C20 as stated: once onSuccess has returned for a session that a CHECK of
\* another connection activated, no AUTH on any connection that adopted that
\* session reaches onSuccess again.
C20_OnSuccessOnce ==
    [][\A c \in Conn :
          (/\ browserSession[c] \in completed
           /\ Adopted(c, browserSession[c])
           /\ activator[browserSession[c]] \notin {0, c, browserSession[c]})
          => ~ ReachesOnSuccess(c)]_vars

=============================================================================
